---- MODULE Spec2Model ----
(***************************************************************************)
(* A model of the tsconfig crate (src/src/lib.rs): the tolerant text       *)
(* normalisation of parse_to_value / TsConfig::parse_str, the recursive    *)
(* `extends` resolution of parse_file_to_value with its merge, and the     *)
(* serde mapping of a serde_json::Value into TsConfig.                     *)
(*                                                                         *)
(* A string is a sequence of one-character strings, so that scanning,      *)
(* uppercasing and matching are computed character by character.           *)
(***************************************************************************)
EXTENDS Naturals, Sequences, FiniteSets, TLC

VARIABLES
    ma, mb, mres, mpc,                      \* merge(a, b): operands, result
    entry, orig, text, ins, stage, buf, tres,  \* parse_to_value / parse_str
    fs, start, stack, ret, rpc,             \* parse_file_to_value / parse_file
    doc, clean, typed, tpc                  \* serde_json::from_value::<TsConfig>

mergeVars == <<ma, mb, mres, mpc>>
textVars  == <<entry, orig, text, ins, stage, buf, tres>>
resVars   == <<fs, start, stack, ret, rpc>>
mapVars   == <<doc, clean, typed, tpc>>
vars      == <<mergeVars, textVars, resVars, mapVars>>

----------------------------------------------------------------------------
(* serde_json::Value.  k is the kind; v the lexeme of a scalar (the        *)
(* characters of a string, the digits of a number, the word of a boolean); *)
(* o the members of an object; a the elements of an array.                 *)

EmptyMap == [x \in {} |-> x]

Null    == [k |-> "null", v |-> <<>>, o |-> EmptyMap, a |-> <<>>]

Bool(b) == [k |-> "bool",
            v |-> IF b THEN <<"t","r","u","e">> ELSE <<"f","a","l","s","e">>,
            o |-> EmptyMap, a |-> <<>>]

Num(d)  == [k |-> "num", v |-> d, o |-> EmptyMap, a |-> <<>>]

Str(s)  == [k |-> "str", v |-> s, o |-> EmptyMap, a |-> <<>>]

Arr(s)  == [k |-> "arr", v |-> <<>>, o |-> EmptyMap, a |-> s]

Obj(f)  == [k |-> "obj", v |-> <<>>, o |-> f, a |-> <<>>]

IsObj(x) == x.k = "obj"

Has(x, key) == IsObj(x) /\ key \in DOMAIN x.o

\* Value's Index<&str>: value[key] is Null for a missing key or a non-object
Index(x, key) == IF Has(x, key) THEN x.o[key] ELSE Null

\* Result<T, ConfigError>
Ok(x)  == [ok |-> TRUE,  val |-> x,    err |-> "none"]

Err(e) == [ok |-> FALSE, val |-> Null, err |-> e]

----------------------------------------------------------------------------
(* fn merge(a: &mut Value, b: Value): the value a holds afterwards.        *)

RECURSIVE merge(_, _)

merge(x, y) ==
    IF IsObj(x) /\ IsObj(y)
    THEN Obj([key \in (DOMAIN x.o) \cup (DOMAIN y.o) |->
                IF key \in DOMAIN y.o
                THEN merge(IF key \in DOMAIN x.o THEN x.o[key] ELSE Null,
                           y.o[key])
                ELSE x.o[key]])
    ELSE IF x.k = "null" THEN y ELSE x

\* The deep merge of the design: objects merge member by member, anything
\* else is replaced by the overlay.
RECURSIVE DeepMerge(_, _)
DeepMerge(base, overlay) ==
    IF IsObj(base) /\ IsObj(overlay)
    THEN Obj([key \in (DOMAIN base.o) \cup (DOMAIN overlay.o) |->
                IF key \in DOMAIN overlay.o
                THEN IF key \in DOMAIN base.o
                     THEN DeepMerge(base.o[key], overlay.o[key])
                     ELSE overlay.o[key]
                ELSE base.o[key]])
    ELSE overlay

\* operands of merge: leaves of every kind, objects nested two deep
KX == <<"x">>
KY == <<"y">>
KK == <<"k">>

Leaves == { Null, Bool(TRUE), Num(<<"1">>), Str(<<"s">>), Arr(<<Num(<<"1">>)>>) }

ObjectsOver(keys, vals) ==
    UNION { { Obj(f) : f \in [d -> vals] } : d \in SUBSET keys }

MergeInner == Leaves \cup ObjectsOver({KX, KY}, Leaves)

MergeOperands == ObjectsOver({KK}, MergeInner)

Pending == [ok |-> FALSE, val |-> Null, err |-> "pending"]

NoInsert == [kind |-> "none", at |-> 0, ws |-> <<>>]

otherThanMerge == <<textVars, resVars, mapVars>>

MergeInit ==
    /\ ma \in MergeOperands
    /\ mb \in MergeOperands
    /\ mres = Null
    /\ mpc = "call"
    /\ entry = "none" /\ orig = <<>> /\ text = <<>> /\ ins = NoInsert
    /\ stage = "idle" /\ buf = <<>> /\ tres = Pending
    /\ fs = EmptyMap /\ start = <<>> /\ stack = <<>> /\ ret = Pending /\ rpc = "idle"
    /\ doc = Null /\ clean = Null /\ typed = Pending /\ tpc = "idle"

\* merge(&mut value, extends_value): ma is the child, mb its resolved parent
Merge ==
    /\ mpc = "call"
    /\ mres' = merge(ma, mb)
    /\ mpc' = "merged"
    /\ UNCHANGED <<ma, mb>>
    /\ UNCHANGED otherThanMerge

MergeNext == Merge

SpecMerge == MergeInit /\ [][MergeNext]_vars

\* C2: after the resolver merges a child value with its resolved parent,
\* the result is the deep merge of the design with the parent as base and
\* the child as overlay: at every level a member of both that is an object
\* in both is merged, any other member of both holds the child's value
\* whatever its kind, and a member of one side only is kept.
C2_ChildValueWinsAtEveryKey ==
    mpc = "merged" => mres = DeepMerge(mb, ma)

----------------------------------------------------------------------------
(* Texts.                                                                  *)

Q  == "\""
BS == "\\"

\* serde_json's whitespace, and the regex crate's \s (which also holds the
\* form feed)
JsonWs     == {" ", "\n", "\t", "\r"}
RegexSpace == JsonWs \cup {"\f"}

\* json_comments::StripComments: a scanner over Top, InString, StringEscape,
\* InComment (after one slash), InBlockComment, MaybeCommentEnd and
\* InLineComment.  A comment's characters become spaces; the newline that
\* ends a line comment stays.  The read fails (an io::Error) on a slash
\* that opens no comment and at an end of input inside a string or a block
\* comment.
RECURSIVE StripFrom(_, _, _, _)
StripFrom(t, i, st, acc) ==
    IF i > Len(t)
    THEN IF st \in {"Top", "InLineComment"}
         THEN [ok |-> TRUE, out |-> acc]
         ELSE [ok |-> FALSE, out |-> <<>>]
    ELSE LET c == t[i] IN
         CASE st = "Top" ->
                IF c = Q THEN StripFrom(t, i + 1, "InString", Append(acc, c))
                ELSE IF c = "/"
                     THEN StripFrom(t, i + 1, "InComment", Append(acc, " "))
                     ELSE StripFrom(t, i + 1, "Top", Append(acc, c))
           [] st = "InString" ->
                StripFrom(t, i + 1,
                          IF c = Q THEN "Top"
                          ELSE IF c = BS THEN "StringEscape" ELSE "InString",
                          Append(acc, c))
           [] st = "StringEscape" ->
                StripFrom(t, i + 1, "InString", Append(acc, c))
           [] st = "InComment" ->
                IF c = "*"
                THEN StripFrom(t, i + 1, "InBlockComment", Append(acc, " "))
                ELSE IF c = "/"
                     THEN StripFrom(t, i + 1, "InLineComment", Append(acc, " "))
                     ELSE [ok |-> FALSE, out |-> <<>>]
           [] st = "InBlockComment" ->
                StripFrom(t, i + 1,
                          IF c = "*" THEN "MaybeCommentEnd" ELSE "InBlockComment",
                          Append(acc, " "))
           [] st = "MaybeCommentEnd" ->
                StripFrom(t, i + 1,
                          IF c = "/" THEN "Top"
                          ELSE IF c = "*" THEN "MaybeCommentEnd"
                               ELSE "InBlockComment",
                          Append(acc, " "))
           [] st = "InLineComment" ->
                IF c = "\n"
                THEN StripFrom(t, i + 1, "Top", Append(acc, c))
                ELSE StripFrom(t, i + 1, "InLineComment", Append(acc, " "))

\* StripComments::new(json.as_bytes()).read_to_string(&mut stripped)
StripComments(t) == StripFrom(t, 1, "Top", <<>>)

\* the end of the run of \s characters starting at i
RECURSIVE SkipSpace(_, _)
SkipSpace(t, i) ==
    IF i <= Len(t) /\ t[i] \in RegexSpace THEN SkipSpace(t, i + 1) ELSE i

\* where a match of ,\s*<closer> starting at i ends; 0 when there is none
MatchEnd(t, i, closers) ==
    IF t[i] # "," THEN 0
    ELSE LET j == SkipSpace(t, i + 1) IN
         IF j <= Len(t) /\ t[j] \in closers THEN j ELSE 0

\* replace_all over the leftmost, non-overlapping matches: each match loses
\* its comma and keeps the group `valid`
RECURSIVE ReplaceFrom(_, _, _, _)
ReplaceFrom(t, i, closers, acc) ==
    IF i > Len(t) THEN acc
    ELSE LET e == MatchEnd(t, i, closers) IN
         IF e = 0
         THEN ReplaceFrom(t, i + 1, closers, Append(acc, t[i]))
         ELSE ReplaceFrom(t, e + 1, closers, acc \o SubSeq(t, i + 1, e))

\* Regex::new(r",(?P<valid>\s*})") ; re.replace_all(&stripped, "$valid")
ReplaceTrailingCommas(t) == ReplaceFrom(t, 1, {"}"}, <<>>)

\* the two steps together: the text handed to serde_json
Normalize(t) ==
    LET s == StripComments(t) IN
    IF s.ok THEN [ok |-> TRUE, out |-> ReplaceTrailingCommas(s.out)] ELSE s

----------------------------------------------------------------------------
(* serde_json::from_str::<Value> on the fragment of JSON built from        *)
(* objects, arrays, strings, unsigned integers, true, false and null.      *)

Digits == {"0", "1", "2", "3", "4", "5", "6", "7", "8", "9"}

Fail == [ok |-> FALSE, val |-> Null, pos |-> 0]

Done(x, p) == [ok |-> TRUE, val |-> x, pos |-> p]

RECURSIVE SkipWs(_, _)
SkipWs(t, i) ==
    IF i <= Len(t) /\ t[i] \in JsonWs THEN SkipWs(t, i + 1) ELSE i

\* the characters an escape stands for
Unescape(c) ==
    CASE c = "n" -> "\n" [] c = "t" -> "\t" [] c = "r" -> "\r"
      [] c = "f" -> "\f" [] OTHER -> c

\* a string's characters, from the one after its opening quote
RECURSIVE PString(_, _, _)
PString(t, i, acc) ==
    IF i > Len(t) THEN Fail
    ELSE IF t[i] = Q THEN Done(acc, i + 1)
    ELSE IF t[i] = BS
         THEN IF i + 1 <= Len(t) /\ t[i + 1] \in {Q, BS, "/", "n", "t", "r", "f"}
              THEN PString(t, i + 2, Append(acc, Unescape(t[i + 1])))
              ELSE Fail
    ELSE IF t[i] \in {"\n", "\t", "\r", "\f"} THEN Fail
    ELSE PString(t, i + 1, Append(acc, t[i]))

RECURSIVE PDigits(_, _)
PDigits(t, i) == IF i <= Len(t) /\ t[i] \in Digits THEN PDigits(t, i + 1) ELSE i

PNumber(t, i) ==
    LET e == IF t[i] = "0" THEN i + 1 ELSE PDigits(t, i) IN
    IF e <= Len(t) /\ t[e] \in Digits THEN Fail
    ELSE Done(Num(SubSeq(t, i, e - 1)), e)

PWord(t, i, w, x) ==
    IF i + Len(w) - 1 <= Len(t) /\ SubSeq(t, i, i + Len(w) - 1) = w
    THEN Done(x, i + Len(w)) ELSE Fail

RECURSIVE PValue(_, _)
RECURSIVE PMembers(_, _, _, _)
RECURSIVE PElements(_, _, _, _)

\* the members of an object, from the first character after "{" or ","
PMembers(t, i, f, first) ==
    IF i > Len(t) THEN Fail
    ELSE IF t[i] = "}" /\ first THEN Done(Obj(f), i + 1)
    ELSE IF t[i] # Q THEN Fail
    ELSE LET key == PString(t, i + 1, <<>>) IN
         IF ~key.ok THEN Fail
         ELSE LET c == SkipWs(t, key.pos) IN
              IF c > Len(t) \/ t[c] # ":" THEN Fail
              ELSE LET x == PValue(t, c + 1) IN
                   IF ~x.ok THEN Fail
                   ELSE LET n == SkipWs(t, x.pos)
                            g == [kk \in (DOMAIN f) \cup {key.val} |->
                                    IF kk = key.val THEN x.val ELSE f[kk]]
                        IN  IF n > Len(t) THEN Fail
                            ELSE IF t[n] = "}" THEN Done(Obj(g), n + 1)
                            ELSE IF t[n] = ","
                                 THEN PMembers(t, SkipWs(t, n + 1), g, FALSE)
                                 ELSE Fail

\* the elements of an array, from the first character after "[" or ","
PElements(t, i, s, first) ==
    IF i > Len(t) THEN Fail
    ELSE IF t[i] = "]" /\ first THEN Done(Arr(s), i + 1)
    ELSE LET x == PValue(t, i) IN
         IF ~x.ok THEN Fail
         ELSE LET n == SkipWs(t, x.pos) IN
              IF n > Len(t) THEN Fail
              ELSE IF t[n] = "]" THEN Done(Arr(Append(s, x.val)), n + 1)
              ELSE IF t[n] = ","
                   THEN PElements(t, SkipWs(t, n + 1), Append(s, x.val), FALSE)
                   ELSE Fail

PValue(t, i0) ==
    LET i == SkipWs(t, i0) IN
    IF i > Len(t) THEN Fail
    ELSE CASE t[i] = "{" -> PMembers(t, SkipWs(t, i + 1), EmptyMap, TRUE)
           [] t[i] = "[" -> PElements(t, SkipWs(t, i + 1), <<>>, TRUE)
           [] t[i] = Q   -> LET s == PString(t, i + 1, <<>>) IN
                            IF s.ok THEN Done(Str(s.val), s.pos) ELSE Fail
           [] t[i] \in Digits -> PNumber(t, i)
           [] t[i] = "t" -> PWord(t, i, <<"t","r","u","e">>, Bool(TRUE))
           [] t[i] = "f" -> PWord(t, i, <<"f","a","l","s","e">>, Bool(FALSE))
           [] t[i] = "n" -> PWord(t, i, <<"n","u","l","l">>, Null)
           [] OTHER -> Fail

\* serde_json::from_str: one value, then nothing but whitespace
FromStr(t) ==
    LET r == PValue(t, 1) IN
    IF r.ok /\ SkipWs(t, r.pos) > Len(t) THEN Ok(r.val) ELSE Err("parse")

\* pub fn parse_to_value(json: &str) -> Result<Value>
parse_to_value(t) ==
    LET n == Normalize(t) IN
    IF n.ok THEN FromStr(n.out) ELSE Err("io")

----------------------------------------------------------------------------
(* serde_json::from_value::<TsConfig>: the derived and the hand-written    *)
(* Deserialize implementations, on a Value.  A typed value has the shape   *)
(* of a Value: k names the type, v an enum's variant (and the text of      *)
(* Other), o the fields that are Some, a the elements of a Vec.            *)

Field(n, ty, optional) == [name |-> n, ty |-> ty, opt |-> optional]

\* struct TsConfig, #[serde(rename_all = "camelCase")]
TsConfigFields ==
    << Field(<<"e","x","c","l","u","d","e">>, "Vec<String>", TRUE),
       Field(<<"e","x","t","e","n","d","s">>, "String", TRUE),
       Field(<<"f","i","l","e","s">>, "Vec<String>", TRUE),
       Field(<<"i","n","c","l","u","d","e">>, "Vec<String>", TRUE),
       Field(<<"r","e","f","e","r","e","n","c","e","s">>, "References", TRUE),
       Field(<<"t","y","p","e","A","c","q","u","i","s","i","t","i","o","n">>, "TypeAcquisition", TRUE),
       Field(<<"c","o","m","p","i","l","e","r","O","p","t","i","o","n","s">>, "CompilerOptions", TRUE) >>

\* struct Reference
ReferenceFields ==
    << Field(<<"p","a","t","h">>, "String", FALSE),
       Field(<<"p","r","e","p","e","n","d">>, "bool", TRUE) >>

\* the struct variant TypeAcquisition::Object
TypeAcquisitionObjectFields ==
    << Field(<<"e","n","a","b","l","e">>, "bool", FALSE),
       Field(<<"i","n","c","l","u","d","e">>, "Vec<String>", TRUE),
       Field(<<"e","x","c","l","u","d","e">>, "Vec<String>", TRUE),
       Field(<<"d","i","s","a","b","l","e","_","f","i","l","e","n","a","m","e","_","b","a","s","e","d","_","t","y","p","e","_","a","c","q","u","i","s","i","t","i","o","n">>, "bool", TRUE) >>

\* struct CompilerOptions, #[serde(rename_all = "camelCase")]
CompilerOptionsFields ==
    << Field(<<"a","l","l","o","w","J","s">>, "bool", TRUE),
       Field(<<"c","h","e","c","k","J","s">>, "bool", TRUE),
       Field(<<"c","o","m","p","o","s","i","t","e">>, "bool", TRUE),
       Field(<<"d","e","c","l","a","r","a","t","i","o","n">>, "bool", TRUE),
       Field(<<"d","e","c","l","a","r","a","t","i","o","n","M","a","p">>, "bool", TRUE),
       Field(<<"d","o","w","n","l","e","v","e","l","I","t","e","r","a","t","i","o","n">>, "bool", TRUE),
       Field(<<"i","m","p","o","r","t","H","e","l","p","e","r","s">>, "bool", TRUE),
       Field(<<"i","n","c","r","e","m","e","n","t","a","l">>, "bool", TRUE),
       Field(<<"i","s","o","l","a","t","e","d","M","o","d","u","l","e","s">>, "bool", TRUE),
       Field(<<"j","s","x">>, "Jsx", TRUE),
       Field(<<"l","i","b">>, "Vec<Lib>", TRUE),
       Field(<<"m","o","d","u","l","e">>, "Module", TRUE),
       Field(<<"n","o","E","m","i","t">>, "bool", TRUE),
       Field(<<"o","u","t","D","i","r">>, "String", TRUE),
       Field(<<"o","u","t","F","i","l","e">>, "String", TRUE),
       Field(<<"r","e","m","o","v","e","C","o","m","m","e","n","t","s">>, "bool", TRUE),
       Field(<<"r","o","o","t","D","i","r">>, "String", TRUE),
       Field(<<"s","o","u","r","c","e","M","a","p">>, "bool", TRUE),
       Field(<<"t","a","r","g","e","t">>, "Target", TRUE),
       Field(<<"t","s","B","u","i","l","d","I","n","f","o","F","i","l","e">>, "String", TRUE),
       Field(<<"a","l","w","a","y","s","S","t","r","i","c","t">>, "bool", TRUE),
       Field(<<"n","o","I","m","p","l","i","c","i","t","A","n","y">>, "bool", TRUE),
       Field(<<"n","o","I","m","p","l","i","c","i","t","T","h","i","s">>, "bool", TRUE),
       Field(<<"s","t","r","i","c","t">>, "bool", TRUE),
       Field(<<"s","t","r","i","c","t","B","i","n","d","C","a","l","l","A","p","p","l","y">>, "bool", TRUE),
       Field(<<"s","t","r","i","c","t","F","u","n","c","t","i","o","n","T","y","p","e","s">>, "bool", TRUE),
       Field(<<"s","t","r","i","c","t","N","u","l","l","C","h","e","c","k","s">>, "bool", TRUE),
       Field(<<"s","t","r","i","c","t","P","r","o","p","e","r","t","y","I","n","i","t","i","a","l","i","z","a","t","i","o","n">>, "bool", TRUE),
       Field(<<"a","l","l","o","w","S","y","n","t","h","e","t","i","c","D","e","f","a","u","l","t","I","m","p","o","r","t","s">>, "bool", TRUE),
       Field(<<"a","l","l","o","w","U","m","d","G","l","o","b","a","l","A","c","c","e","s","s">>, "bool", TRUE),
       Field(<<"b","a","s","e","U","r","l">>, "String", TRUE),
       Field(<<"e","s","M","o","d","u","l","e","I","n","t","e","r","o","p">>, "bool", TRUE),
       Field(<<"m","o","d","u","l","e","R","e","s","o","l","u","t","i","o","n">>, "ModuleResolutionMode", TRUE),
       Field(<<"p","a","t","h","s">>, "HashMap<String, Vec<String>>", TRUE),
       Field(<<"p","r","e","s","e","r","v","e","S","y","m","l","i","n","k","s">>, "bool", TRUE),
       Field(<<"r","o","o","t","D","i","r","s">>, "Vec<String>", TRUE),
       Field(<<"t","y","p","e","R","o","o","t","s">>, "Vec<String>", TRUE),
       Field(<<"t","y","p","e","s">>, "Vec<String>", TRUE),
       Field(<<"i","n","l","i","n","e","S","o","u","r","c","e","M","a","p">>, "bool", TRUE),
       Field(<<"i","n","l","i","n","e","S","o","u","r","c","e","s">>, "bool", TRUE),
       Field(<<"m","a","p","R","o","o","t">>, "String", TRUE),
       Field(<<"s","o","u","r","c","e","R","o","o","t">>, "String", TRUE),
       Field(<<"n","o","F","a","l","l","t","h","r","o","u","g","h","C","a","s","e","s","I","n","S","w","i","t","c","h">>, "bool", TRUE),
       Field(<<"n","o","I","m","p","l","i","c","i","t","R","e","t","u","r","n","s">>, "bool", TRUE),
       Field(<<"n","o","P","r","o","p","e","r","t","y","A","c","c","e","s","s","F","r","o","m","I","n","d","e","x","S","i","g","n","a","t","u","r","e">>, "bool", TRUE),
       Field(<<"n","o","U","n","c","h","e","c","k","e","d","I","n","d","e","x","e","d","A","c","c","e","s","s">>, "bool", TRUE),
       Field(<<"n","o","U","n","u","s","e","d","L","o","c","a","l","s">>, "bool", TRUE),
       Field(<<"e","m","i","t","D","e","c","o","r","a","t","o","r","M","e","t","a","d","a","t","a">>, "bool", TRUE),
       Field(<<"e","x","p","e","r","i","m","e","n","t","a","l","D","e","c","o","r","a","t","o","r","s">>, "bool", TRUE),
       Field(<<"a","l","l","o","w","U","n","r","e","a","c","h","a","b","l","e","C","o","d","e">>, "bool", TRUE),
       Field(<<"a","l","l","o","w","U","n","u","s","e","d","L","a","b","e","l","s">>, "bool", TRUE),
       Field(<<"a","s","s","u","m","e","C","h","a","n","g","e","s","O","n","l","y","A","f","f","e","c","t","D","i","r","e","c","t","D","e","p","e","n","d","e","n","c","i","e","s">>, "bool", TRUE),
       Field(<<"c","h","a","r","s","e","t">>, "String", TRUE),
       Field(<<"d","e","c","l","a","r","a","t","i","o","n","D","i","r">>, "String", TRUE),
       Field(<<"d","i","a","g","n","o","s","t","i","c","s">>, "bool", TRUE),
       Field(<<"d","i","s","a","b","l","e","R","e","f","e","r","e","n","c","e","d","P","r","o","j","e","c","t","L","o","a","d">>, "bool", TRUE),
       Field(<<"d","i","s","a","b","l","e","S","i","z","e","L","i","m","i","t">>, "bool", TRUE),
       Field(<<"d","i","s","a","b","l","e","S","o","l","u","t","i","o","n","S","e","a","r","c","h","i","n","g">>, "bool", TRUE),
       Field(<<"d","i","s","a","b","l","e","S","o","u","r","c","e","O","f","P","r","o","j","e","c","t","R","e","f","e","r","e","n","c","e","R","e","d","i","r","e","c","t">>, "bool", TRUE),
       Field(<<"e","m","i","t","B","O","M">>, "bool", TRUE),
       Field(<<"e","m","i","t","D","e","c","l","a","r","a","t","i","o","n","O","n","l","y">>, "bool", TRUE),
       Field(<<"e","x","p","l","a","i","n","F","i","l","e","s">>, "bool", TRUE),
       Field(<<"e","x","t","e","n","d","e","d","D","i","a","g","n","o","s","t","i","c","s">>, "bool", TRUE),
       Field(<<"f","o","r","c","e","C","o","n","s","i","s","t","e","n","t","C","a","s","i","n","g","I","n","F","i","l","e","N","a","m","e","s">>, "bool", TRUE),
       Field(<<"g","e","n","e","r","a","t","e","C","p","u","P","r","o","f","i","l","e">>, "bool", TRUE),
       Field(<<"i","m","p","o","r","t","s","N","o","t","U","s","e","d","A","s","V","a","l","u","e","s">>, "String", TRUE),
       Field(<<"j","s","x","F","a","c","t","o","r","y">>, "String", TRUE),
       Field(<<"j","s","x","F","r","a","g","m","e","n","t","F","a","c","t","o","r","y">>, "String", TRUE),
       Field(<<"j","s","x","I","m","p","o","r","t","S","o","u","r","c","e">>, "String", TRUE),
       Field(<<"k","e","y","o","f","S","t","r","i","n","g","s","O","n","l","y">>, "bool", TRUE),
       Field(<<"l","i","s","t","E","m","i","t","t","e","d","F","i","l","e","s">>, "bool", TRUE),
       Field(<<"l","i","s","t","F","i","l","e","s">>, "bool", TRUE),
       Field(<<"m","a","x","N","o","d","e","M","o","d","u","l","e","J","s","D","e","p","t","h">>, "u32", TRUE),
       Field(<<"n","o","E","m","i","t","H","e","l","p","e","r","s">>, "bool", TRUE),
       Field(<<"n","o","E","m","i","t","O","n","E","r","r","o","r">>, "bool", TRUE),
       Field(<<"n","o","E","r","r","o","r","T","r","u","n","c","a","t","i","o","n">>, "bool", TRUE),
       Field(<<"n","o","I","m","p","l","i","c","i","t","U","s","e","S","t","r","i","c","t">>, "bool", TRUE),
       Field(<<"n","o","L","i","b">>, "bool", TRUE),
       Field(<<"n","o","R","e","s","o","l","v","e">>, "bool", TRUE),
       Field(<<"n","o","S","t","r","i","c","t","G","e","n","e","r","i","c","C","h","e","c","k","s">>, "bool", TRUE),
       Field(<<"o","u","t">>, "String", TRUE),
       Field(<<"p","r","e","s","e","r","v","e","C","o","n","s","t","E","n","u","m","s">>, "bool", TRUE),
       Field(<<"r","e","a","c","t","N","a","m","e","s","p","a","c","e">>, "String", TRUE),
       Field(<<"r","e","s","o","l","v","e","J","s","o","n","M","o","d","u","l","e">>, "bool", TRUE),
       Field(<<"s","k","i","p","D","e","f","a","u","l","t","L","i","b","C","h","e","c","k">>, "bool", TRUE),
       Field(<<"s","k","i","p","L","i","b","C","h","e","c","k">>, "bool", TRUE),
       Field(<<"s","t","r","i","p","I","n","t","e","r","n","a","l">>, "bool", TRUE),
       Field(<<"s","u","p","p","r","e","s","s","E","x","c","e","s","s","P","r","o","p","e","r","t","y","E","r","r","o","r","s">>, "bool", TRUE),
       Field(<<"s","u","p","p","r","e","s","s","I","m","p","l","i","c","i","t","A","n","y","I","n","d","e","x","E","r","r","o","r","s">>, "bool", TRUE),
       Field(<<"t","r","a","c","e","R","e","s","o","l","u","t","i","o","n">>, "bool", TRUE),
       Field(<<"u","s","e","D","e","f","i","n","e","F","o","r","C","l","a","s","s","F","i","e","l","d","s">>, "bool", TRUE),
       Field(<<"p","r","e","s","e","r","v","e","W","a","t","c","h","O","u","t","p","u","t">>, "bool", TRUE),
       Field(<<"p","r","e","t","t","y">>, "bool", TRUE),
       Field(<<"f","a","l","l","b","a","c","k","P","o","l","l","i","n","g">>, "String", TRUE),
       Field(<<"w","a","t","c","h","D","i","r","e","c","t","o","r","y">>, "String", TRUE),
       Field(<<"w","a","t","c","h","F","i","l","e">>, "String", TRUE) >>

\* the arms of the match in Target::deserialize, in order
TargetArms ==
    << <<<<"E","S","5">>, "Es5">>,
       <<<<"E","S","2","0","1","5">>, "Es2015">>,
       <<<<"E","S","6">>, "Es6">>,
       <<<<"E","S","2","0","1","6">>, "Es2016">>,
       <<<<"E","S","7">>, "Es7">>,
       <<<<"E","S","2","0","1","7">>, "Es2017">>,
       <<<<"E","S","2","0","1","8">>, "Es2018">>,
       <<<<"E","S","2","0","1","9">>, "Es2019">>,
       <<<<"E","S","2","0","2","0">>, "Es2020">>,
       <<<<"E","S","N","E","X","T">>, "EsNext">> >>

\* the arms of the match in Lib::deserialize, in order
LibArms ==
    << <<<<"E","S","5">>, "Es5">>,
       <<<<"E","S","2","0","1","5">>, "Es2015">>,
       <<<<"E","S","6">>, "Es6">>,
       <<<<"E","S","2","0","1","6">>, "Es2016">>,
       <<<<"E","S","7">>, "Es7">>,
       <<<<"E","S","2","0","1","7">>, "Es2017">>,
       <<<<"E","S","2","0","1","8">>, "Es2018">>,
       <<<<"E","S","2","0","1","9">>, "Es2019">>,
       <<<<"E","S","2","0","2","0">>, "Es2020">>,
       <<<<"E","S","N","e","x","t">>, "EsNext">>,
       <<<<"D","O","M">>, "Dom">>,
       <<<<"W","E","B","W","O","R","K","E","R">>, "WebWorker">>,
       <<<<"S","C","R","I","P","T","H","O","S","T">>, "ScriptHost">>,
       <<<<"D","O","M",".","I","T","E","R","A","B","L","E">>, "DomIterable">>,
       <<<<"E","S","2","0","1","5",".","C","O","R","E">>, "Es2015Core">>,
       <<<<"E","S","2","0","1","5",".","G","E","N","E","R","A","T","O","R">>, "Es2015Generator">>,
       <<<<"E","S","2","0","1","5",".","I","T","E","R","A","B","L","E">>, "Es2015Iterable">>,
       <<<<"E","S","2","0","1","5",".","P","R","O","M","I","S","E">>, "Es2015Promise">>,
       <<<<"E","S","2","0","1","5",".","P","R","O","X","Y">>, "Es2015Proxy">>,
       <<<<"E","S","2","0","1","5",".","R","E","F","L","E","C","T">>, "Es2015Reflect">>,
       <<<<"E","S","2","0","1","5",".","S","Y","M","B","O","L">>, "Es2015Symbol">>,
       <<<<"E","S","2","0","1","5",".","S","Y","M","B","O","L",".","W","E","L","L","K","N","O","W","N">>, "Es2015SymbolWellKnown">>,
       <<<<"E","S","2","0","1","5",".","A","R","R","A","Y",".","I","N","C","L","U","D","E">>, "Es2016ArrayInclude">>,
       <<<<"E","S","2","0","1","5",".","O","B","J","E","C","T">>, "Es2017Object">>,
       <<<<"E","S","2","0","1","7","I","N","T","L">>, "Es2017Intl">>,
       <<<<"E","S","2","0","1","5",".","S","H","A","R","E","D","M","E","M","O","R","Y">>, "Es2017SharedMemory">>,
       <<<<"E","S","2","0","1","7",".","S","T","R","I","N","G">>, "Es2017String">>,
       <<<<"E","S","2","0","1","7",".","T","Y","P","E","D","A","R","R","A","Y","S">>, "Es2017TypedArrays">>,
       <<<<"E","S","2","0","1","8",".","I","N","T","L">>, "Es2018Intl">>,
       <<<<"E","S","2","0","1","8",".","P","R","O","M","I","S","E">>, "Es2018Promise">>,
       <<<<"E","S","2","0","1","8",".","R","E","G","E","X","P">>, "Es2018RegExp">>,
       <<<<"E","S","2","0","1","9",".","A","R","R","A","Y">>, "Es2019Array">>,
       <<<<"E","S","2","0","1","9",".","O","B","J","E","C","T">>, "Es2019Object">>,
       <<<<"E","S","2","0","1","9",".","S","T","R","I","N","G">>, "Es2019String">>,
       <<<<"E","S","2","0","1","9",".","S","Y","M","B","O","L">>, "Es2019Symbol">>,
       <<<<"E","S","2","0","2","0",".","S","T","R","I","N","G">>, "Es2020String">>,
       <<<<"E","S","2","0","2","0",".","S","Y","M","B","O","L",".","W","E","L","L","K","N","O","W","N">>, "Es2020SymbolWellknown">>,
       <<<<"E","S","N","E","X","T",".","A","S","Y","N","C","I","T","E","R","A","B","L","E">>, "EsNextAsyncIterable">>,
       <<<<"E","S","N","E","X","T",".","A","R","R","A","Y">>, "EsNextArray">>,
       <<<<"E","S","N","E","X","T",".","I","N","T","L">>, "EsNextIntl">>,
       <<<<"E","S","N","E","X","T",".","S","Y","M","B","O","L">>, "EsNextSymbol">> >>

\* the arms of the match in Module::deserialize, in order
ModuleArms ==
    << <<<<"C","O","M","M","O","N","J","S">>, "CommonJs">>,
       <<<<"E","S","N","E","X","T">>, "EsNext">>,
       <<<<"E","S","6">>, "Es6">>,
       <<<<"E","S","2","0","1","5">>, "Es2015">>,
       <<<<"E","S","2","0","2","0">>, "Es2020">>,
       <<<<"N","O","N","E">>, "None">>,
       <<<<"U","M","D">>, "Umd">>,
       <<<<"A","M","D">>, "Amd">>,
       <<<<"S","Y","S","T","E","M">>, "System">> >>

\* enum Target: each declared variant with the option value it is named after
TargetVariants ==
    << <<<<"E","S","3">>, "Es3">>,
       <<<<"E","S","5">>, "Es5">>,
       <<<<"E","S","2","0","1","5">>, "Es2015">>,
       <<<<"E","S","6">>, "Es6">>,
       <<<<"E","S","2","0","1","6">>, "Es2016">>,
       <<<<"E","S","7">>, "Es7">>,
       <<<<"E","S","2","0","1","7">>, "Es2017">>,
       <<<<"E","S","2","0","1","8">>, "Es2018">>,
       <<<<"E","S","2","0","1","9">>, "Es2019">>,
       <<<<"E","S","2","0","2","0">>, "Es2020">>,
       <<<<"E","S","N","E","X","T">>, "EsNext">> >>

\* enum Module: each declared variant with the option value it is named after
ModuleVariants ==
    << <<<<"C","O","M","M","O","N","J","S">>, "CommonJs">>,
       <<<<"E","S","6">>, "Es6">>,
       <<<<"E","S","2","0","1","5">>, "Es2015">>,
       <<<<"E","S","2","0","2","0">>, "Es2020">>,
       <<<<"N","O","N","E">>, "None">>,
       <<<<"U","M","D">>, "Umd">>,
       <<<<"A","M","D">>, "Amd">>,
       <<<<"S","Y","S","T","E","M">>, "System">>,
       <<<<"E","S","N","E","X","T">>, "EsNext">> >>

\* enum Lib: each declared variant with the option value it is named after
LibVariants ==
    << <<<<"E","S","5">>, "Es5">>,
       <<<<"E","S","2","0","1","5">>, "Es2015">>,
       <<<<"E","S","6">>, "Es6">>,
       <<<<"E","S","2","0","1","6">>, "Es2016">>,
       <<<<"E","S","7">>, "Es7">>,
       <<<<"E","S","2","0","1","7">>, "Es2017">>,
       <<<<"E","S","2","0","1","8">>, "Es2018">>,
       <<<<"E","S","2","0","1","9">>, "Es2019">>,
       <<<<"E","S","2","0","2","0">>, "Es2020">>,
       <<<<"E","S","N","E","X","T">>, "EsNext">>,
       <<<<"D","O","M">>, "Dom">>,
       <<<<"W","E","B","W","O","R","K","E","R">>, "WebWorker">>,
       <<<<"S","C","R","I","P","T","H","O","S","T">>, "ScriptHost">>,
       <<<<"D","O","M",".","I","T","E","R","A","B","L","E">>, "DomIterable">>,
       <<<<"E","S","2","0","1","5",".","C","O","R","E">>, "Es2015Core">>,
       <<<<"E","S","2","0","1","5",".","G","E","N","E","R","A","T","O","R">>, "Es2015Generator">>,
       <<<<"E","S","2","0","1","5",".","I","T","E","R","A","B","L","E">>, "Es2015Iterable">>,
       <<<<"E","S","2","0","1","5",".","P","R","O","M","I","S","E">>, "Es2015Promise">>,
       <<<<"E","S","2","0","1","5",".","P","R","O","X","Y">>, "Es2015Proxy">>,
       <<<<"E","S","2","0","1","5",".","R","E","F","L","E","C","T">>, "Es2015Reflect">>,
       <<<<"E","S","2","0","1","5",".","S","Y","M","B","O","L">>, "Es2015Symbol">>,
       <<<<"E","S","2","0","1","5",".","S","Y","M","B","O","L",".","W","E","L","L","K","N","O","W","N">>, "Es2015SymbolWellKnown">>,
       <<<<"E","S","2","0","1","6",".","A","R","R","A","Y",".","I","N","C","L","U","D","E">>, "Es2016ArrayInclude">>,
       <<<<"E","S","2","0","1","7",".","O","B","J","E","C","T">>, "Es2017Object">>,
       <<<<"E","S","2","0","1","7",".","I","N","T","L">>, "Es2017Intl">>,
       <<<<"E","S","2","0","1","7",".","S","H","A","R","E","D","M","E","M","O","R","Y">>, "Es2017SharedMemory">>,
       <<<<"E","S","2","0","1","7",".","S","T","R","I","N","G">>, "Es2017String">>,
       <<<<"E","S","2","0","1","7",".","T","Y","P","E","D","A","R","R","A","Y","S">>, "Es2017TypedArrays">>,
       <<<<"E","S","2","0","1","8",".","I","N","T","L">>, "Es2018Intl">>,
       <<<<"E","S","2","0","1","8",".","P","R","O","M","I","S","E">>, "Es2018Promise">>,
       <<<<"E","S","2","0","1","8",".","R","E","G","E","X","P">>, "Es2018RegExp">>,
       <<<<"E","S","2","0","1","9",".","A","R","R","A","Y">>, "Es2019Array">>,
       <<<<"E","S","2","0","1","9",".","O","B","J","E","C","T">>, "Es2019Object">>,
       <<<<"E","S","2","0","1","9",".","S","T","R","I","N","G">>, "Es2019String">>,
       <<<<"E","S","2","0","1","9",".","S","Y","M","B","O","L">>, "Es2019Symbol">>,
       <<<<"E","S","2","0","2","0",".","S","T","R","I","N","G">>, "Es2020String">>,
       <<<<"E","S","2","0","2","0",".","S","Y","M","B","O","L",".","W","E","L","L","K","N","O","W","N">>, "Es2020SymbolWellknown">>,
       <<<<"E","S","N","E","X","T",".","A","S","Y","N","C","I","T","E","R","A","B","L","E">>, "EsNextAsyncIterable">>,
       <<<<"E","S","N","E","X","T",".","A","R","R","A","Y">>, "EsNextArray">>,
       <<<<"E","S","N","E","X","T",".","I","N","T","L">>, "EsNextIntl">>,
       <<<<"E","S","N","E","X","T",".","S","Y","M","B","O","L">>, "EsNextSymbol">> >>

\* enum Jsx, #[serde(rename_all = "kebab-case")]: the names serde matches
JsxNames ==
    << <<<<"r","e","a","c","t">>, "React">>,
       <<<<"r","e","a","c","t","-","j","s","x">>, "ReactJsx">>,
       <<<<"r","e","a","c","t","-","j","s","x","d","e","v">>, "ReactJsxdev">>,
       <<<<"r","e","a","c","t","-","n","a","t","i","v","e">>, "ReactNative">>,
       <<<<"p","r","e","s","e","r","v","e">>, "Preserve">> >>

\* enum ModuleResolutionMode, each variant with its #[serde(rename)]
ModuleResolutionModeNames ==
    << <<<<"n","o","d","e">>, "Node">>,
       <<<<"c","l","a","s","s","i","c">>, "Classic">> >>

LowerLetters == <<"a","b","c","d","e","f","g","h","i","j","k","l","m",
                  "n","o","p","q","r","s","t","u","v","w","x","y","z">>

UpperLetters == <<"A","B","C","D","E","F","G","H","I","J","K","L","M",
                  "N","O","P","Q","R","S","T","U","V","W","X","Y","Z">>

UpperChar(c) ==
    IF \E i \in 1..26 : LowerLetters[i] = c
    THEN UpperLetters[CHOOSE i \in 1..26 : LowerLetters[i] = c]
    ELSE c

LowerChar(c) ==
    IF \E i \in 1..26 : UpperLetters[i] = c
    THEN LowerLetters[CHOOSE i \in 1..26 : UpperLetters[i] = c]
    ELSE c

\* str::to_uppercase on ASCII text
to_uppercase(s) == [i \in 1..Len(s) |-> UpperChar(s[i])]

to_lowercase(s) == [i \in 1..Len(s) |-> LowerChar(s[i])]

Typed(ty, variant, fields, elems) == [k |-> ty, v |-> variant, o |-> fields, a |-> elems]

\* an enum's variant, and its Other(String)
Variant(ty, name) == Typed(ty, <<name>>, EmptyMap, <<>>)

Other(ty, s) == Typed(ty, <<"Other">> \o s, EmptyMap, <<>>)

\* Option::None: the field is left out of the struct's fields
NoneVal == Typed("None", <<>>, EmptyMap, <<>>)

\* the first arm whose pattern is s, else the arm `other`
MatchArms(ty, arms, s) ==
    IF \E i \in 1..Len(arms) : arms[i][1] = s
    THEN LET i == CHOOSE n \in 1..Len(arms) :
                     /\ arms[n][1] = s
                     /\ \A m \in 1..(n - 1) : arms[m][1] # s
         IN  Variant(ty, arms[i][2])
    ELSE Other(ty, s)

DigitChars == <<"0","1","2","3","4","5","6","7","8","9">>

DigitValue(c) == (CHOOSE i \in 1..10 : DigitChars[i] = c) - 1

\* d <= e for two runs of digits of one length
RECURSIVE DigitsLeq(_, _, _)
DigitsLeq(d, e, i) ==
    IF i > Len(d) THEN TRUE
    ELSE IF DigitValue(d[i]) < DigitValue(e[i]) THEN TRUE
    ELSE IF DigitValue(d[i]) > DigitValue(e[i]) THEN FALSE
    ELSE DigitsLeq(d, e, i + 1)

\* u32::MAX, 4294967295
U32MaxDigits == <<"4","2","9","4","9","6","7","2","9","5">>

\* whether a number without sign, fraction and leading zero is a u32
FitsU32(d) ==
    \/ Len(d) < Len(U32MaxDigits)
    \/ Len(d) = Len(U32MaxDigits) /\ DigitsLeq(d, U32MaxDigits, 1)

RECURSIVE Deserialize(_, _)
RECURSIVE DeserializeStruct(_, _, _)

\* Option<T>: null is None
DeserializeField(f, x) ==
    IF f.opt /\ x.k = "null" THEN Ok(NoneVal) ELSE Deserialize(f.ty, x)

FieldIndex(fields, n) == CHOOSE i \in 1..Len(fields) : fields[i].name = n

FieldNames(fields) == { fields[i].name : i \in 1..Len(fields) }

\* a struct that rejects a member it has no field for
\* (#[serde(deny_unknown_fields)])
VisitMapDenyUnknown(ty, fields, x) ==
    LET present == { i \in 1..Len(fields) : fields[i].name \in DOMAIN x.o }
        r == [i \in present |-> DeserializeField(fields[i], x.o[fields[i].name])]
        some == { fields[i].name : i \in { j \in present : r[j].ok /\ r[j].val # NoneVal } }
    IN  IF /\ \A i \in present : r[i].ok
           /\ \A i \in (1..Len(fields)) \ present : fields[i].opt
           /\ DOMAIN x.o \subseteq FieldNames(fields)
        THEN Ok(Typed(ty, <<>>,
                      [n \in some |-> r[FieldIndex(fields, n)].val], <<>>))
        ELSE Err("parse")

\* the derived visit_map: a member that names a field is deserialized as
\* the field, any other member is ignored, a field without a member is
\* None if it is an Option and an error if it is not
VisitMap(ty, fields, x) ==
    LET present == { i \in 1..Len(fields) : fields[i].name \in DOMAIN x.o }
        r == [i \in present |-> DeserializeField(fields[i], x.o[fields[i].name])]
        some == { fields[i].name : i \in { j \in present : r[j].ok /\ r[j].val # NoneVal } }
    IN  IF /\ \A i \in present : r[i].ok
           /\ \A i \in (1..Len(fields)) \ present : fields[i].opt
        THEN Ok(Typed(ty, <<>>,
                      [n \in some |-> r[FieldIndex(fields, n)].val], <<>>))
        ELSE Err("parse")

\* the derived visit_seq: the fields in order, one element each
VisitSeq(ty, fields, x) ==
    LET r == [i \in 1..Len(fields) |->
                IF i <= Len(x.a) THEN DeserializeField(fields[i], x.a[i])
                ELSE Err("parse")]
        some == { fields[i].name : i \in { j \in 1..Len(fields) : r[j].ok /\ r[j].val # NoneVal } }
    IN  IF Len(x.a) = Len(fields) /\ \A i \in 1..Len(fields) : r[i].ok
        THEN Ok(Typed(ty, <<>>,
                      [n \in some |-> r[FieldIndex(fields, n)].val], <<>>))
        ELSE Err("parse")

DeserializeStruct(ty, fields, x) ==
    IF IsObj(x) THEN VisitMap(ty, fields, x)
    ELSE IF x.k = "arr" THEN VisitSeq(ty, fields, x)
    ELSE Err("parse")

\* Vec<T>
DeserializeVec(ty, x) ==
    IF x.k # "arr" THEN Err("parse")
    ELSE LET r == [i \in 1..Len(x.a) |-> Deserialize(ty, x.a[i])] IN
         IF \A i \in 1..Len(x.a) : r[i].ok
         THEN Ok(Typed("Vec", <<>>, EmptyMap, [i \in 1..Len(x.a) |-> r[i].val]))
         ELSE Err("parse")

\* HashMap<String, Vec<String>>
DeserializeMap(ty, x) ==
    IF ~IsObj(x) THEN Err("parse")
    ELSE LET r == [key \in DOMAIN x.o |-> Deserialize(ty, x.o[key])] IN
         IF \A key \in DOMAIN x.o : r[key].ok
         THEN Ok(Typed("HashMap", <<>>, [key \in DOMAIN x.o |-> r[key].val], <<>>))
         ELSE Err("parse")

\* Value::deserialize_enum: a string is a variant without content, an
\* object of one member is a variant with its content
EnumAccess(x) ==
    IF x.k = "str" THEN [ok |-> TRUE, variant |-> x.v, content |-> FALSE, value |-> Null]
    ELSE IF IsObj(x) /\ Cardinality(DOMAIN x.o) = 1
         THEN LET key == CHOOSE n \in DOMAIN x.o : TRUE IN
              [ok |-> TRUE, variant |-> key, content |-> TRUE, value |-> x.o[key]]
         ELSE [ok |-> FALSE, variant |-> <<>>, content |-> FALSE, value |-> Null]

\* a derived enum of unit variants, matched by name as written
DeserializeUnitEnum(ty, names, x) ==
    LET e == EnumAccess(x) IN
    IF /\ e.ok
       /\ \E i \in 1..Len(names) : names[i][1] = e.variant
       /\ e.content => e.value.k = "null"
    THEN Ok(Variant(ty, names[CHOOSE i \in 1..Len(names) : names[i][1] = e.variant][2]))
    ELSE Err("parse")

\* a hand-written Deserialize: String::deserialize, to_uppercase, match
DeserializeUppercased(ty, arms, x) ==
    IF x.k = "str" THEN Ok(MatchArms(ty, arms, to_uppercase(x.v)))
    ELSE Err("parse")

\* #[serde(untagged)] enum References: Bool(bool), then
\* References(Vec<Reference>)
DeserializeReferences(x) ==
    IF x.k = "bool" THEN Ok(Typed("References", <<"Bool">>, EmptyMap, <<x>>))
    ELSE LET r == DeserializeVec("Reference", x) IN
         IF r.ok THEN Ok(Typed("References", <<"References">>, EmptyMap, <<r.val>>))
         ELSE Err("parse")

\* enum TypeAcquisition as derived (externally tagged): {"Bool": b} or
\* {"Object": {..}}
DeserializeTypeAcquisition(x) ==
    LET e == EnumAccess(x) IN
    IF ~e.ok \/ ~e.content THEN Err("parse")
    ELSE IF e.variant = <<"B","o","o","l">>
         THEN IF e.value.k = "bool"
              THEN Ok(Typed("TypeAcquisition", <<"Bool">>, EmptyMap, <<e.value>>))
              ELSE Err("parse")
    ELSE IF e.variant = <<"O","b","j","e","c","t">>
         THEN LET r == DeserializeStruct("TypeAcquisition::Object",
                                         TypeAcquisitionObjectFields, e.value) IN
              IF r.ok THEN Ok(Typed("TypeAcquisition", <<"Object">>, r.val.o, <<>>))
              ELSE Err("parse")
    ELSE Err("parse")

Deserialize(ty, x) ==
    CASE ty = "bool"   -> IF x.k = "bool" THEN Ok(x) ELSE Err("parse")
      [] ty = "String" -> IF x.k = "str" THEN Ok(x) ELSE Err("parse")
      [] ty = "u32"    -> IF x.k = "num" /\ FitsU32(x.v)
                          THEN Ok(x) ELSE Err("parse")
      [] ty = "Vec<String>" -> DeserializeVec("String", x)
      [] ty = "Vec<Lib>"    -> DeserializeVec("Lib", x)
      [] ty = "HashMap<String, Vec<String>>" -> DeserializeMap("Vec<String>", x)
      [] ty = "Jsx"    -> DeserializeUnitEnum("Jsx", JsxNames, x)
      [] ty = "ModuleResolutionMode" ->
            DeserializeUnitEnum("ModuleResolutionMode", ModuleResolutionModeNames, x)
      [] ty = "Target" -> DeserializeUppercased("Target", TargetArms, x)
      [] ty = "Module" -> DeserializeUppercased("Module", ModuleArms, x)
      [] ty = "Lib"    -> DeserializeUppercased("Lib", LibArms, x)
      [] ty = "References"      -> DeserializeReferences(x)
      [] ty = "Reference"       -> DeserializeStruct("Reference", ReferenceFields, x)
      [] ty = "TypeAcquisition" -> DeserializeTypeAcquisition(x)
      [] ty = "CompilerOptions" ->
            DeserializeStruct("CompilerOptions", CompilerOptionsFields, x)
      [] ty = "TsConfig" -> DeserializeStruct("TsConfig", TsConfigFields, x)

\* serde_json::from_value::<TsConfig>(values)
from_value(x) == Deserialize("TsConfig", x)

\* TsConfig::parse_str on a text without repeated member names
parse_str(t) ==
    LET n == Normalize(t) IN
    IF ~n.ok THEN Err("io")
    ELSE LET r == FromStr(n.out) IN
         IF r.ok THEN from_value(r.val) ELSE r

----------------------------------------------------------------------------
(* parse_to_value and TsConfig::parse_str, step by step, on a text.        *)

MaxRawLen == 4
MaxWs     == 2

\* characters a text is typed from
RawAlphabet == {"{", "}", "[", "]", ",", Q, " ", "/"}

\* documents of strict JSON
TextDocs ==
    { <<"{","}">>,
      <<"[","]">>,
      <<"{","\"","a","\"",":","1","}">>,
      <<"{","\"","a","\"",":","1",",","\"","b","\"",":","[","1","]","}">>,
      <<"{","\"","a","\"",":","{","\"","b","\"",":","t","r","u","e","}","}">>,
      <<"[","{","\"","a","\"",":","1","}","]">>,
      <<"[","1",",","[","0","]","]">>,
      <<"{","\"","a","\"",":","\"",",","}","\"","}">>,
      <<"{","\"","a","\"",":","\"",","," ","]","\"","}">>,
      <<"{","\"","a","\"",":","\"","/","/","\"","}">>,
      <<"{","\"","a","\"",":","\"","\\","\"","}","\"","}">>,
      <<"{","\"","a","\"",":","[","{","\"","b","\"",":","n","u","l","l","}","]","}">>,
      <<"{"," ","\"","a","\""," ",":"," ","f","a","l","s","e"," ","}">> }

\* runs of spaces and newlines
WsSeqs == UNION { [1..n -> {" ", "\n"}] : n \in 0..MaxWs }

\* the string scanner's state before the character at i
RECURSIVE QuoteState(_, _)
QuoteState(t, i) ==
    IF i = 1 THEN "Top"
    ELSE LET p == QuoteState(t, i - 1)
             c == t[i - 1]
         IN  CASE p = "Top"      -> IF c = Q THEN "InString" ELSE "Top"
               [] p = "InString" -> IF c = Q THEN "Top"
                                    ELSE IF c = BS THEN "Escape" ELSE "InString"
               [] p = "Escape"   -> "InString"

\* the closing braces and brackets outside string literals
Closers(t) ==
    { i \in 1..Len(t) : t[i] \in {"}", "]"} /\ QuoteState(t, i) = "Top" }

InsertAt(t, i, s) == SubSeq(t, 1, i - 1) \o s \o SubSeq(t, i, Len(t))

otherThanText == <<mergeVars, resVars, mapVars>>

\* serde_json::from_str::<T>(t), T being Value or TsConfig
Strict(e, t) ==
    LET r == FromStr(t) IN
    IF e = "parse_str" /\ r.ok THEN from_value(r.val) ELSE r

TextInit ==
    /\ entry \in {"parse_to_value", "parse_str"}
    /\ orig = <<>> /\ text = <<>> /\ ins = NoInsert
    /\ stage = "input" /\ buf = <<>> /\ tres = Pending
    /\ ma = Null /\ mb = Null /\ mres = Null /\ mpc = "idle"
    /\ fs = EmptyMap /\ start = <<>> /\ stack = <<>> /\ ret = Pending /\ rpc = "idle"
    /\ doc = Null /\ clean = Null /\ typed = Pending /\ tpc = "idle"

\* the caller's text grows by one character
TypeChar(c) ==
    /\ stage = "input" /\ ins = NoInsert
    /\ Len(text) < MaxRawLen
    /\ text' = Append(text, c)
    /\ orig' = text'
    /\ UNCHANGED <<entry, ins, stage, buf, tres>>
    /\ UNCHANGED otherThanText

\* the caller's text is a document of strict JSON
LoadDocument(d) ==
    /\ stage = "input" /\ text = <<>>
    /\ text' = d
    /\ orig' = d
    /\ UNCHANGED <<entry, ins, stage, buf, tres>>
    /\ UNCHANGED otherThanText

\* a comma and a run of whitespace are put before a closing brace or
\* bracket of a strict JSON text
InsertTrailingComma(i, w) ==
    /\ stage = "input" /\ ins = NoInsert
    /\ FromStr(text).ok
    /\ i \in Closers(text)
    /\ text' = InsertAt(text, i, <<",">> \o w)
    /\ ins' = [kind |-> IF text[i] = "}" THEN "obj" ELSE "arr", at |-> i, ws |-> w]
    /\ UNCHANGED <<entry, orig, stage, buf, tres>>
    /\ UNCHANGED otherThanText

\* StripComments::new(json.as_bytes()).read_to_string(&mut stripped)?
StripStep ==
    /\ stage = "input"
    /\ LET s == StripComments(text) IN
       IF s.ok
       THEN /\ buf' = s.out /\ stage' = "stripped" /\ tres' = tres
       ELSE /\ buf' = <<>>  /\ stage' = "done"     /\ tres' = Err("io")
    /\ UNCHANGED <<entry, orig, text, ins>>
    /\ UNCHANGED otherThanText

\* let stripped = re.replace_all(&stripped, "$valid")
ReplaceStep ==
    /\ stage = "stripped"
    /\ buf' = ReplaceTrailingCommas(buf)
    /\ stage' = "replaced"
    /\ UNCHANGED <<entry, orig, text, ins, tres>>
    /\ UNCHANGED otherThanText

\* parse_to_value: serde_json::from_str(&stripped)? as a Value;
\* parse_str: serde_json::from_str(&stripped) as a TsConfig
ParseStep ==
    /\ stage = "replaced"
    /\ tres' = Strict(entry, buf)
    /\ stage' = "done"
    /\ UNCHANGED <<entry, orig, text, ins, buf>>
    /\ UNCHANGED otherThanText

TextNext ==
    \/ \E c \in RawAlphabet : TypeChar(c)
    \/ \E d \in TextDocs : LoadDocument(d)
    \/ \E i \in 1..Len(text), w \in WsSeqs : InsertTrailingComma(i, w)
    \/ StripStep
    \/ ReplaceStep
    \/ ParseStep

SpecText == TextInit /\ [][TextNext]_vars

\* C4: the normalisation (comment stripping, then the trailing-comma
\* substitution) returns a strict JSON text unchanged, string literals
\* included, and normalising its own output changes nothing.
C4_NormalizeIsNoOpOnStrictJson ==
    stage = "replaced" =>
        /\ FromStr(text).ok => buf = text
        /\ Normalize(buf) = [ok |-> TRUE, out |-> buf]

\* C5: in parse_str and parse_to_value, a comma and whitespace put before
\* a closing brace of a strict JSON text are deleted, and the call returns
\* what the text without them holds: the object parses and its members
\* keep their values; put before a closing bracket they stay where they
\* are, and the call fails with a parse error.
C5_TrailingCommaOnlyBeforeBrace ==
    /\ (stage \in {"replaced", "done"} /\ ins.kind = "obj") =>
          buf = ReplaceTrailingCommas(SubSeq(orig, 1, ins.at - 1))
                \o ins.ws
                \o ReplaceTrailingCommas(SubSeq(orig, ins.at, Len(orig)))
    /\ (stage = "done" /\ ins.kind = "obj") => tres = Strict(entry, orig)
    /\ (stage \in {"replaced", "done"} /\ ins.kind = "arr") =>
          buf = ReplaceTrailingCommas(SubSeq(orig, 1, ins.at - 1))
                \o <<",">> \o ins.ws
                \o ReplaceTrailingCommas(SubSeq(orig, ins.at, Len(orig)))
    /\ (stage = "done" /\ ins.kind = "arr") =>
          ~tres.ok /\ tres.err = "parse"

----------------------------------------------------------------------------
(* from_value on documents: one known member at the top, one inside        *)
(* compilerOptions, and members no struct has a field for.                 *)

KExtends         == <<"e","x","t","e","n","d","s">>
KReferences      == <<"r","e","f","e","r","e","n","c","e","s">>
KTypeAcquisition == <<"t","y","p","e","A","c","q","u","i","s","i","t","i","o","n">>
KCompilerOptions == <<"c","o","m","p","i","l","e","r","O","p","t","i","o","n","s">>
KJsx    == <<"j","s","x">>
KTarget == <<"t","a","r","g","e","t">>
KModule == <<"m","o","d","u","l","e">>
KLib    == <<"l","i","b">>
KPath    == <<"p","a","t","h">>
KPrepend == <<"p","r","e","p","e","n","d">>
KEnable  == <<"e","n","a","b","l","e">>
KInclude == <<"i","n","c","l","u","d","e">>
KExclude == <<"e","x","c","l","u","d","e">>
KStrict  == <<"s","t","r","i","c","t">>
KOutDir  == <<"o","u","t","D","i","r">>

\* member names no struct has a field for (the first of each from the
\* test ignores_invalid_fields)
UnknownTopKeys    == { <<"b","l","e","e","p">> }
UnknownOptionKeys == { <<"s","o","m","e","N","e","w","U","n","s","u","p","p","o","r","t","e","d","P","r","o","p","e","r","t","y">> }

UnknownValues == { Bool(TRUE), Obj(KJsx :> Str(<<"b","o","g","u","s">>)) }

One(key, x) == Obj(key :> x)

StrList(s) == Arr(<<Str(s)>>)

ReferencesValues ==
    { Bool(TRUE), Bool(FALSE), Arr(<<>>),
      Arr(<<One(KPath, Str(<<"p">>))>>),
      Arr(<<Obj(KPath :> Str(<<"p">>) @@ KPrepend :> Bool(TRUE))>>),
      Arr(<<One(KPrepend, Bool(TRUE))>>),
      Arr(<<One(KPath, Num(<<"1">>))>>),
      One(KPath, Str(<<"p">>)),
      Str(<<"p">>), Num(<<"1">>) }

TypeAcquisitionValues ==
    { Bool(TRUE), Bool(FALSE),
      One(KEnable, Bool(TRUE)),
      Obj(KEnable :> Bool(FALSE) @@ KInclude :> StrList(<<"a">>)),
      Obj(KEnable :> Bool(TRUE) @@ KExclude :> StrList(<<"a">>)),
      One(KInclude, StrList(<<"a">>)),
      One(KEnable, Str(<<"a">>)),
      One(<<"B","o","o","l">>, Bool(TRUE)),
      One(<<"O","b","j","e","c","t">>, One(KEnable, Bool(TRUE))),
      Str(<<"B","o","o","l">>), Num(<<"1">>), Arr(<<>>) }

\* lower case, upper case, and a capital followed by lower case
Capitalized(s) == [i \in 1..Len(s) |-> IF i = 1 THEN UpperChar(s[i]) ELSE LowerChar(s[i])]

Spellings(s) == { to_lowercase(s), to_uppercase(s), Capitalized(s) }

NamesOf(table) == { table[i][1] : i \in 1..Len(table) }

TargetInputs == UNION { Spellings(n) : n \in NamesOf(TargetVariants) \cup {<<"E","S","2","0","9","9">>} }
ModuleInputs == UNION { Spellings(n) : n \in NamesOf(ModuleVariants) \cup {<<"N","O","D","E","1","6">>} }
LibInputs    == UNION { Spellings(n) : n \in NamesOf(LibVariants) \cup {<<"E","S","2","0","9","9",".","A","R","R","A","Y">>} }
JsxInputs    == UNION { Spellings(n) : n \in NamesOf(JsxNames)
                                          \cup {<<"b","o","g","u","s","-","m","o","d","e">>, <<"r","e","a","c","t","_","j","s","x">>, <<"R","e","a","c","t","J","s","x">>} }

\* a known member of the document
TopMembers ==
    { <<KReferences, x>> : x \in ReferencesValues }
    \cup { <<KTypeAcquisition, x>> : x \in TypeAcquisitionValues }
    \cup { <<KExtends, Str(<<"A">>)>>, <<KExtends, Num(<<"1">>)>>,
           <<KInclude, StrList(<<"a">>)>>, <<KInclude, Null>> }

\* a known member of compilerOptions
OptionMembers ==
    { <<KTarget, Str(s)>> : s \in TargetInputs }
    \cup { <<KModule, Str(s)>> : s \in ModuleInputs }
    \cup { <<KLib, StrList(s)>> : s \in LibInputs }
    \cup { <<KJsx, Str(s)>> : s \in JsxInputs }
    \cup { <<KTarget, Num(<<"1">>)>>, <<KLib, Str(<<"d","o","m">>)>>,
           <<KJsx, Bool(TRUE)>>, <<KJsx, One(<<"r","e","a","c","t">>, Null)>>,
           <<KStrict, Bool(TRUE)>>, <<KStrict, Str(<<"a">>)>>,
           <<KOutDir, Str(<<"a">>)>>, <<KOutDir, Null>> }

With(x, key, y) ==
    Obj([n \in (DOMAIN x.o) \cup {key} |-> IF n = key THEN y ELSE x.o[n]])

\* x with the member key put into its compilerOptions, which is made if
\* it is not there
WithOption(x, key, y) ==
    With(x, KCompilerOptions,
         With(IF Has(x, KCompilerOptions) THEN x.o[KCompilerOptions] ELSE Obj(EmptyMap),
              key, y))

otherThanMap == <<mergeVars, textVars, resVars>>

MapInit ==
    /\ doc = Obj(EmptyMap) /\ clean = Obj(EmptyMap)
    /\ typed = Pending /\ tpc = "build"
    /\ ma = Null /\ mb = Null /\ mres = Null /\ mpc = "idle"
    /\ entry = "none" /\ orig = <<>> /\ text = <<>> /\ ins = NoInsert
    /\ stage = "idle" /\ buf = <<>> /\ tres = Pending
    /\ fs = EmptyMap /\ start = <<>> /\ stack = <<>> /\ ret = Pending /\ rpc = "idle"

TsConfigNames        == FieldNames(TsConfigFields)
CompilerOptionsNames == FieldNames(CompilerOptionsFields)

\* the document gets a member that TsConfig has a field for
SetTopMember ==
    /\ tpc = "build"
    /\ (DOMAIN doc.o) \cap TsConfigNames \subseteq {KCompilerOptions}
    /\ \E m \in TopMembers :
          /\ doc' = With(doc, m[1], m[2])
          /\ clean' = With(clean, m[1], m[2])
    /\ UNCHANGED <<typed, tpc>>
    /\ UNCHANGED otherThanMap

\* compilerOptions gets a member that CompilerOptions has a field for
SetOption ==
    /\ tpc = "build"
    /\ Has(doc, KCompilerOptions) =>
          (DOMAIN doc.o[KCompilerOptions].o) \cap CompilerOptionsNames = {}
    /\ \E m \in OptionMembers :
          /\ doc' = WithOption(doc, m[1], m[2])
          /\ clean' = WithOption(clean, m[1], m[2])
    /\ UNCHANGED <<typed, tpc>>
    /\ UNCHANGED otherThanMap

\* the document gets a member that TsConfig has no field for
AddUnknownTop ==
    /\ tpc = "build"
    /\ (DOMAIN doc.o) \cap UnknownTopKeys = {}
    /\ \E key \in UnknownTopKeys, x \in UnknownValues : doc' = With(doc, key, x)
    /\ UNCHANGED <<clean, typed, tpc>>
    /\ UNCHANGED otherThanMap

\* compilerOptions, if it is there, gets a member that CompilerOptions has
\* no field for
AddUnknownOption ==
    /\ tpc = "build"
    /\ Has(doc, KCompilerOptions)
    /\ (DOMAIN doc.o[KCompilerOptions].o) \cap UnknownOptionKeys = {}
    /\ \E key \in UnknownOptionKeys, x \in UnknownValues :
          doc' = WithOption(doc, key, x)
    /\ UNCHANGED <<clean, typed, tpc>>
    /\ UNCHANGED otherThanMap

\* let cfg = serde_json::from_value(values)?
MapDocument ==
    /\ tpc = "build"
    /\ typed' = from_value(doc)
    /\ tpc' = "mapped"
    /\ UNCHANGED <<doc, clean>>
    /\ UNCHANGED otherThanMap

MapNext ==
    \/ SetTopMember
    \/ SetOption
    \/ AddUnknownTop
    \/ AddUnknownOption
    \/ MapDocument

SpecMap == MapInit /\ [][MapNext]_vars

OnlyCompilerOptions == (DOMAIN doc.o) \cap TsConfigNames = {KCompilerOptions}

\* the variant named by the upper-cased text, else Other of that text
NamedVariant(ty, variants, s) ==
    LET u == to_uppercase(s) IN
    IF \E i \in 1..Len(variants) : variants[i][1] = u
    THEN Variant(ty, variants[CHOOSE i \in 1..Len(variants) : variants[i][1] = u][2])
    ELSE Other(ty, u)

TypedOption(key) == typed.val.o[KCompilerOptions].o[key]

\* C7: a string under target or module, and each string of lib, always
\* maps: to the declared variant whose name is the string in upper case
\* (so every declared variant is produced by its name in any letter case),
\* else to Other of the upper-cased string.
C7_OpenEnumsMapByUppercasedName ==
    (tpc = "mapped" /\ OnlyCompilerOptions) =>
        LET co == doc.o[KCompilerOptions] IN
        /\ (Has(co, KTarget) /\ co.o[KTarget].k = "str") =>
              /\ typed.ok
              /\ TypedOption(KTarget) = NamedVariant("Target", TargetVariants, co.o[KTarget].v)
        /\ (Has(co, KModule) /\ co.o[KModule].k = "str") =>
              /\ typed.ok
              /\ TypedOption(KModule) = NamedVariant("Module", ModuleVariants, co.o[KModule].v)
        /\ (Has(co, KLib) /\ co.o[KLib].k = "arr") =>
              /\ typed.ok
              /\ TypedOption(KLib).a =
                    [i \in 1..Len(co.o[KLib].a) |->
                        NamedVariant("Lib", LibVariants, co.o[KLib].a[i].v)]

\* C8: a string under jsx that is a known name in any letter case maps to
\* the variant of that name; any other string fails the whole mapping.
C8_JsxIsCaseInsensitive ==
    (tpc = "mapped" /\ OnlyCompilerOptions) =>
        LET co == doc.o[KCompilerOptions] IN
        (Has(co, KJsx) /\ co.o[KJsx].k = "str") =>
            LET s == to_lowercase(co.o[KJsx].v) IN
            IF \E i \in 1..Len(JsxNames) : JsxNames[i][1] = s
            THEN /\ typed.ok
                 /\ TypedOption(KJsx) =
                       Variant("Jsx", JsxNames[CHOOSE i \in 1..Len(JsxNames) : JsxNames[i][1] = s][2])
            ELSE ~typed.ok

IsStringList(x) == x.k = "arr" /\ \A i \in 1..Len(x.a) : x.a[i].k = "str"

KDisableFilename == <<"d","i","s","a","b","l","e","F","i","l","e","n","a","m","e","B","a","s","e","d","T","y","p","e","A","c","q","u","i","s","i","t","i","o","n">>

\* {enable, include?, exclude?, disableFilenameBasedTypeAcquisition?}
TypeAcquisitionShape(x) ==
    /\ IsObj(x)
    /\ Has(x, KEnable) /\ x.o[KEnable].k = "bool"
    /\ Has(x, KInclude) => IsStringList(x.o[KInclude])
    /\ Has(x, KExclude) => IsStringList(x.o[KExclude])
    /\ Has(x, KDisableFilename) => x.o[KDisableFilename].k = "bool"

\* a list of {path, prepend?}
ReferencesShape(x) ==
    /\ x.k = "arr"
    /\ \A i \in 1..Len(x.a) :
          /\ IsObj(x.a[i])
          /\ Has(x.a[i], KPath) /\ x.a[i].o[KPath].k = "str"
          /\ Has(x.a[i], KPrepend) => x.a[i].o[KPrepend].k = "bool"

\* C6: references and typeAcquisition each accept a plain boolean (the
\* boolean variant), else the non-boolean shape given as the member's
\* value (the other variant), and fail only for a value of neither shape.
C6_TwoShapeFields ==
    (tpc = "mapped" /\ ~Has(doc, KCompilerOptions)) =>
        /\ Has(doc, KReferences) =>
              LET x == doc.o[KReferences] IN
              IF x.k = "bool"
              THEN typed.ok /\ typed.val.o[KReferences].v = <<"Bool">>
                            /\ typed.val.o[KReferences].a = <<x>>
              ELSE IF ReferencesShape(x)
                   THEN typed.ok /\ typed.val.o[KReferences].v = <<"References">>
                   ELSE ~typed.ok
        /\ Has(doc, KTypeAcquisition) =>
              LET x == doc.o[KTypeAcquisition] IN
              IF x.k = "bool"
              THEN typed.ok /\ typed.val.o[KTypeAcquisition].v = <<"Bool">>
                            /\ typed.val.o[KTypeAcquisition].a = <<x>>
              ELSE IF TypeAcquisitionShape(x)
                   THEN typed.ok /\ typed.val.o[KTypeAcquisition].v = <<"Object">>
                   ELSE ~typed.ok

\* C9: a document that maps without its unknown members maps with them,
\* at the top and inside compilerOptions, to the same typed document.
C9_UnknownMembersAreIgnored ==
    (tpc = "mapped" /\ from_value(clean).ok) => typed = from_value(clean)

\* an unknown member at both levels beside a jsx that mapped
C9_Witness ==
    /\ tpc = "mapped" /\ typed.ok
    /\ (DOMAIN doc.o) \cap UnknownTopKeys # {}
    /\ Has(doc, KCompilerOptions)
    /\ (DOMAIN doc.o[KCompilerOptions].o) \cap UnknownOptionKeys # {}
    /\ KCompilerOptions \in DOMAIN typed.val.o
    /\ KJsx \in DOMAIN typed.val.o[KCompilerOptions].o


----------------------------------------------------------------------------
(* parse_file_to_value: the files, the paths and the recursion.            *)

MaxDepth == 5

\* Path::parent: the path without its last component; "" for a single
\* component, and none (here "") for the empty path
RECURSIVE LastSlash(_, _)
LastSlash(p, i) == IF i = 0 \/ p[i] = "/" THEN i ELSE LastSlash(p, i - 1)

Parent(p) ==
    LET n == LastSlash(p, Len(p)) IN
    IF n <= 1 THEN SubSeq(p, 1, n) ELSE SubSeq(p, 1, n - 1)

\* Path::join: an absolute path replaces the base
Join(dir, s) ==
    IF s # <<>> /\ s[1] = "/" THEN s
    ELSE IF dir = <<>> \/ dir[Len(dir)] = "/" THEN dir \o s
    ELSE dir \o <<"/">> \o s

FileNames == {<<"A">>, <<"B">>, <<"C">>}

Dir == <<"d">>

Paths == { Join(Dir, n) : n \in FileNames }

StartPath == Join(Dir, <<"C">>)

\* the member "extends": "<name>"
ExtendsMember(n) == <<Q,"e","x","t","e","n","d","s",Q,":",Q>> \o n \o <<Q>>

\* the other member of a file's object, if any
BodyMembers ==
    { <<>>,
      <<Q,"o",Q,":","n","u","l","l">>,
      <<Q,"o",Q,":","1">>,
      <<Q,"o",Q,":","{",Q,"y",Q,":","1","}">>,
      <<Q,"o",Q,":","{",Q,"y",Q,":","n","u","l","l",",","}">> }

Braced(e, b) ==
    <<"{">> \o e \o (IF e # <<>> /\ b # <<>> THEN <<",">> ELSE <<>>) \o b \o <<"}">>

\* what a file may hold: an object with or without a parent, an `extends`
\* that is no string, and a text that is not JSON
FileTexts ==
    { Braced(e, b) : e \in {<<>>} \cup { ExtendsMember(n) : n \in FileNames },
                     b \in BodyMembers }
    \cup { <<"{",Q,"e","x","t","e","n","d","s",Q,":","t","r","u","e","}">>,
           <<"{",Q,"o",Q,":">> }

Missing == [exists |-> FALSE, text |-> <<>>]

File(t) == [exists |-> TRUE, text |-> t]

Files == {Missing} \cup { File(t) : t \in FileTexts }

\* std::fs::read_to_string(path)
read_to_string(files, path) ==
    IF path \in DOMAIN files /\ files[path].exists
    THEN [ok |-> TRUE, out |-> files[path].text]
    ELSE [ok |-> FALSE, out |-> <<>>]

\* parse_to_value on each text a file may hold
ParsedText == [t \in FileTexts |-> parse_to_value(t)]

\* the first two statements of parse_file_to_value
Load(files, path) ==
    LET s == read_to_string(files, path) IN
    IF s.ok THEN ParsedText[s.out] ELSE Err("io")

\* if let Value::String(s) = &value["extends"]
HasParent(x) == Index(x, KExtends).k = "str"

\* path.as_ref().parent().unwrap_or_else(|| Path::new("")).join(s)
extends_path(path, x) == Join(Parent(path), Index(x, KExtends).v)

Frame(p, st, x) == [path |-> p, at |-> st, value |-> x]

Top == stack[Len(stack)]

Pop == SubSeq(stack, 1, Len(stack) - 1)

otherThanRes == <<mergeVars, textVars, doc, clean, tpc>>

ResInit ==
    /\ fs \in [Paths -> Files]
    /\ start = StartPath
    /\ stack = << Frame(StartPath, "enter", Null) >>
    /\ ret = Pending
    /\ rpc = "run"
    /\ ma = Null /\ mb = Null /\ mres = Null /\ mpc = "idle"
    /\ entry = "none" /\ orig = <<>> /\ text = <<>> /\ ins = NoInsert
    /\ stage = "idle" /\ buf = <<>> /\ tres = Pending
    /\ doc = Null /\ clean = Null /\ typed = Pending /\ tpc = "idle"

\* read_to_string(path)? or parse_to_value(&s)? returns the error
LoadFails ==
    /\ rpc = "run" /\ stack # <<>> /\ Top.at = "enter"
    /\ ~Load(fs, Top.path).ok
    /\ ret' = Load(fs, Top.path)
    /\ stack' = Pop
    /\ UNCHANGED <<fs, start, rpc, typed>>
    /\ UNCHANGED otherThanRes

\* no string under "extends": Ok(value)
ReturnOwnValue ==
    /\ rpc = "run" /\ stack # <<>> /\ Top.at = "enter"
    /\ Load(fs, Top.path).ok
    /\ ~HasParent(Load(fs, Top.path).val)
    /\ ret' = Load(fs, Top.path)
    /\ stack' = Pop
    /\ UNCHANGED <<fs, start, rpc, typed>>
    /\ UNCHANGED otherThanRes

\* parse_file_to_value(&extends_path): one more activation
Recurse ==
    /\ rpc = "run" /\ stack # <<>> /\ Top.at = "enter"
    /\ Load(fs, Top.path).ok
    /\ HasParent(Load(fs, Top.path).val)
    /\ Len(stack) < MaxDepth
    /\ LET x == Load(fs, Top.path).val IN
       stack' = Append(Pop, Frame(Top.path, "wait", x))
                \o << Frame(extends_path(Top.path, x), "enter", Null) >>
    /\ UNCHANGED <<fs, start, ret, rpc, typed>>
    /\ UNCHANGED otherThanRes

\* the same call with the thread's stack used up: the process is aborted
StackOverflow ==
    /\ rpc = "run" /\ stack # <<>> /\ Top.at = "enter"
    /\ Load(fs, Top.path).ok
    /\ HasParent(Load(fs, Top.path).val)
    /\ Len(stack) = MaxDepth
    /\ rpc' = "overflow"
    /\ UNCHANGED <<fs, start, stack, ret, typed>>
    /\ UNCHANGED otherThanRes

\* a variant of the return that keeps the child's value when the parent
\* could not be loaded
ResumeIgnoringError ==
    /\ rpc = "run" /\ stack # <<>> /\ Top.at = "wait"
    /\ ret' = IF ret.ok THEN Ok(merge(Top.value, ret.val)) ELSE Ok(Top.value)
    /\ stack' = Pop
    /\ UNCHANGED <<fs, start, rpc, typed>>
    /\ UNCHANGED otherThanRes

\* let extends_value = parse_file_to_value(&extends_path)?;
\* merge(&mut value, extends_value); Ok(value)
Resume ==
    /\ rpc = "run" /\ stack # <<>> /\ Top.at = "wait"
    /\ ret' = IF ret.ok THEN Ok(merge(Top.value, ret.val)) ELSE ret
    /\ stack' = Pop
    /\ UNCHANGED <<fs, start, rpc, typed>>
    /\ UNCHANGED otherThanRes

\* the outermost call has returned
Finish ==
    /\ rpc = "run" /\ stack = <<>>
    /\ rpc' = "done"
    /\ UNCHANGED <<fs, start, stack, ret, typed>>
    /\ UNCHANGED otherThanRes

\* TsConfig::parse_file: let values = parse_file_to_value(path)?;
\* serde_json::from_value(values)
MapResolved ==
    /\ rpc = "done"
    /\ typed' = IF ret.ok THEN from_value(ret.val) ELSE ret
    /\ rpc' = "mapped"
    /\ UNCHANGED <<fs, start, stack, ret>>
    /\ UNCHANGED otherThanRes

ResNext ==
    \/ LoadFails
    \/ ReturnOwnValue
    \/ Recurse
    \/ StackOverflow
    \/ Resume
    \/ Finish
    \/ MapResolved

SpecResolve == ResInit /\ [][ResNext]_vars

\* every one of the n files walked from p loads and names a parent
RECURSIVE ChainGoesOn(_, _, _)
ChainGoesOn(files, p, n) ==
    \/ n = 0
    \/ LET x == Load(files, p) IN
       /\ x.ok /\ HasParent(x.val)
       /\ ChainGoesOn(files, extends_path(p, x.val), n - 1)

\* more files walked than there are paths: the chain comes back to a path
CyclicChain == ChainGoesOn(fs, start, Cardinality(Paths) + 1)

\* C1: resolving a file whose extends chain is cyclic ends, with the
\* cyclic-extends error; the recursion never goes on without bound.
C1_CyclicChainEndsWithCyclicError ==
    CyclicChain =>
        /\ rpc # "overflow"
        /\ rpc \in {"done", "mapped"} => ret = Err("cyclic")

\* the error of the first file of the chain from p that cannot be loaded,
\* "none" when the n files walked all load
RECURSIVE ChainError(_, _, _)
ChainError(files, p, n) ==
    IF n = 0 THEN "none"
    ELSE LET x == Load(files, p) IN
         IF ~x.ok THEN x.err
         ELSE IF HasParent(x.val)
              THEN ChainError(files, extends_path(p, x.val), n - 1)
              ELSE "none"

\* C10: when a file of the extends chain cannot be read or is not JSON
\* after normalisation, the whole call returns that error and no value.
C10_ChainErrorIsTheResult ==
    ChainError(fs, start, Cardinality(Paths)) # "none" =>
        /\ rpc \in {"done", "mapped"} =>
              ret = Err(ChainError(fs, start, Cardinality(Paths)))
        /\ rpc = "mapped" =>
              typed = Err(ChainError(fs, start, Cardinality(Paths)))

\* the grandparent of the start cannot be loaded, and the call has ended
C10_Witness ==
    /\ rpc = "mapped"
    /\ Load(fs, start).ok /\ HasParent(Load(fs, start).val)
    /\ Load(fs, Join(Dir, <<"B">>)).ok
    /\ extends_path(start, Load(fs, start).val) = Join(Dir, <<"B">>)
    /\ extends_path(Join(Dir, <<"B">>), Load(fs, Join(Dir, <<"B">>)).val) = Join(Dir, <<"A">>)
    /\ HasParent(Load(fs, Join(Dir, <<"B">>)).val)
    /\ ~Load(fs, Join(Dir, <<"A">>)).ok
    /\ ~ret.ok

PathA == Join(Dir, <<"A">>)
PathB == Join(Dir, <<"B">>)
PathC == Join(Dir, <<"C">>)

\* C extends B, B extends A, A extends nothing, and all three load
ChainOfThree ==
    /\ start = PathC
    /\ Load(fs, PathA).ok /\ Load(fs, PathB).ok /\ Load(fs, PathC).ok
    /\ ~HasParent(Load(fs, PathA).val)
    /\ HasParent(Load(fs, PathB).val)
    /\ extends_path(PathB, Load(fs, PathB).val) = PathA
    /\ HasParent(Load(fs, PathC).val)
    /\ extends_path(PathC, Load(fs, PathC).val) = PathB

\* C3: resolving C of a chain C extends B extends A gives the deep merge
\* of the design folded over the three documents' own contents, left to
\* right: merge(merge(A, B), C).
C3_ChainIsLeftFoldOfDeepMerge ==
    (rpc \in {"done", "mapped"} /\ ChainOfThree) =>
        ret = Ok(DeepMerge(DeepMerge(Load(fs, PathA).val, Load(fs, PathB).val),
                           Load(fs, PathC).val))

====
